---- MODULE Spec2Model ----
(***************************************************************************)
(* Script Formatter: the eleven actions of src/src/actions/index.ts over   *)
(* the three tables of src/db/tables.ts.                                   *)
(*                                                                         *)
(* Every `await db...` of a handler is one storage statement.  Statements  *)
(* of different calls interleave freely: there is no transaction around a  *)
(* handler.  An action of this module is one statement together with the   *)
(* handler code that consumes its result, up to the point where the next   *)
(* statement is sent or the handler returns; the first action of a handler *)
(* starts at the parse of the input.                                       *)
(* The two selects of getOwnedVersion run in one step: Scripts rows are    *)
(* never deleted and their userId is never written, so the first select    *)
(* gives the same answer at the moment of the second.                      *)
(*                                                                         *)
(* Columns: of the optional columns that an insert or update copies from   *)
(* the input by one and the same expression, each table keeps one required *)
(* and one further column (Scripts: title, status; ScriptVersions:         *)
(* rawContent, isPreferred; ScriptElements: elementType, content).         *)
(* A foreign key of tables.ts is enforced by the storage: a statement that *)
(* would break it is refused and the handler's await throws.               *)
(***************************************************************************)
EXTENDS Integers, FiniteSets, Sequences, TLC

VARIABLES Scripts, ScriptVersions, ScriptElements, uuid, now, pc, call

vars == <<Scripts, ScriptVersions, ScriptElements, uuid, now, pc, call>>

tables == <<Scripts, ScriptVersions, ScriptElements>>

(* ------------------------------ values --------------------------------- *)

\* concurrent requests
Procs == {"p1", "p2"}
\* context.locals.user: an authenticated user, or none
Users == {"u1", "u2"}
NoUser == "anonymous"
Callers == Users \cup {NoUser}

\* an optional input field / a nullable column: <<>> is undefined / NULL
None == <<>>
Some(v) == <<v>>
Opt(S) == {None} \cup {Some(v) : v \in S}

\* ids are 1, 2, ... in the order crypto.randomUUID() hands them out; 0 is the
\* empty string, which no row has
EmptyId == 0

(* ------------------------------ schema --------------------------------- *)

\* references: () => Scripts.columns.id
ScriptVersionsScriptIdFk(scriptId, scripts) == \E s \in scripts : s.id = scriptId

\* references: () => ScriptVersions.columns.id
ScriptElementsVersionIdFk(versionId, versions) == \E v \in versions : v.id = versionId

\* a column declared without `references`: any row may go
ScriptVersionsDeleteNoFk(versionId, elements) == TRUE

\* a ScriptVersions row may go only when no ScriptElements row references it
ScriptVersionsDeleteFk(versionId, elements) ==
    \A e \in elements : e.scriptVersionId # versionId

(* --------------------------- zod input schemas -------------------------- *)

atLeastOne(fields) == \E i \in 1..Len(fields) : fields[i] # None

minOne(s) == s # ""

optMinOne(o) == o = None \/ minOne(o[1])

createScriptInput(in) == minOne(in.title)

updateScriptInput(in) ==
    /\ in.id # EmptyId
    /\ optMinOne(in.title)
    /\ atLeastOne(<<in.title, in.status>>)

createScriptVersionInput(in) == in.scriptId # EmptyId /\ minOne(in.rawContent)

updateScriptVersionInput(in) ==
    /\ in.id # EmptyId /\ in.scriptId # EmptyId
    /\ atLeastOne(<<in.isPreferred, in.rawContent>>)

deleteScriptVersionInput(in) == in.id # EmptyId /\ in.scriptId # EmptyId

listScriptVersionsInput(in) == in.scriptId # EmptyId

createScriptElementInput(in) ==
    /\ in.scriptId # EmptyId /\ in.scriptVersionId # EmptyId
    /\ minOne(in.elementType) /\ minOne(in.content)

updateScriptElementInput(in) ==
    /\ in.id # EmptyId /\ in.scriptId # EmptyId /\ in.scriptVersionId # EmptyId
    /\ atLeastOne(<<in.elementType, in.content>>)

deleteScriptElementInput(in) ==
    in.id # EmptyId /\ in.scriptId # EmptyId /\ in.scriptVersionId # EmptyId

listScriptElementsInput(in) == in.scriptId # EmptyId /\ in.scriptVersionId # EmptyId

\* defineAction({ input, handler }): the schema the input of each action is parsed by
inputSchema(op, in) ==
    CASE op = "createScript" -> createScriptInput(in)
      [] op = "updateScript" -> updateScriptInput(in)
      [] op = "listScripts" -> TRUE
      [] op = "createScriptVersion" -> createScriptVersionInput(in)
      [] op = "updateScriptVersion" -> updateScriptVersionInput(in)
      [] op = "deleteScriptVersion" -> deleteScriptVersionInput(in)
      [] op = "listScriptVersions" -> listScriptVersionsInput(in)
      [] op = "createScriptElement" -> createScriptElementInput(in)
      [] op = "updateScriptElement" -> updateScriptElementInput(in)
      [] op = "deleteScriptElement" -> deleteScriptElementInput(in)
      [] op = "listScriptElements" -> listScriptElementsInput(in)

(* ------------------------------ helpers -------------------------------- *)

\* a user check that lets every caller through
requireUserAnyone(user) == TRUE

requireUser(user) == user # NoUser

\* a lookup by id alone
getOwnedScriptAnyone(scriptId, userId) == {s \in Scripts : s.id = scriptId}

getOwnedScript(scriptId, userId) ==
    {s \in Scripts : s.id = scriptId /\ s.userId = userId}

\* a lookup that forgets eq(ScriptVersions.scriptId, scriptId)
getOwnedVersionAnyScript(versionId, scriptId, userId) ==
    IF getOwnedScript(scriptId, userId) = {} THEN {}
    ELSE {v \in ScriptVersions : v.id = versionId}

getOwnedVersion(versionId, scriptId, userId) ==
    IF getOwnedScript(scriptId, userId) = {} THEN {}
    ELSE {v \in ScriptVersions : v.id = versionId /\ v.scriptId = scriptId}

\* a spread whose condition never holds: the supplied value is dropped
patchIgnored(field, old) == old

\* ...(input.f !== undefined ? { f: input.f } : {})
patch(field, old) == IF field # None THEN field[1] ELSE old

\* the same for a nullable column
patchOpt(field, old) == IF field # None THEN field ELSE old

Idle == [op |-> "none"]

\* const [row] = await db...returning(): the first row, or undefined
first(rows) == IF rows = {} THEN None ELSE Some(CHOOSE r \in rows : TRUE)

\* { items: rows, total: rows.length }
list(rows) == Some([items |-> rows, total |-> Cardinality(rows)])

\* the call c ends in this step with this response, after n storage statements
Respond(p, c, n, code, data) ==
    /\ pc' = [pc EXCEPT ![p] = "done"]
    /\ call' = [call EXCEPT ![p] = [op |-> c.op, user |-> c.user, in |-> c.in,
                                     stmts |-> n, code |-> code, data |-> data]]

\* the call c goes on to its next statement
Goto(p, label, c) ==
    /\ pc' = [pc EXCEPT ![p] = label]
    /\ call' = [call EXCEPT ![p] = c]

\* defineAction: the input schema is parsed first, the handler runs on parsed input
Rejected(p, c) ==
    /\ Respond(p, c, 0, "BAD_REQUEST", None)
    /\ UNCHANGED <<tables, uuid, now>>

Unauthorized(p, c) ==
    /\ Respond(p, c, 0, "UNAUTHORIZED", None)
    /\ UNCHANGED <<tables, uuid, now>>

NotFound(p, c, n) ==
    /\ Respond(p, c, n, "NOT_FOUND", None)
    /\ UNCHANGED <<tables, uuid, now>>

\* a statement the storage refuses throws; the handler does not catch it
StorageError(p, c, n) ==
    /\ Respond(p, c, n, "INTERNAL_SERVER_ERROR", None)
    /\ UNCHANGED <<tables, uuid, now>>

\* statements getOwnedVersion has run when it throws
ownedVersionStmts(scriptId, userId) ==
    IF getOwnedScript(scriptId, userId) = {} THEN 1 ELSE 2

(* ------------------------------- requests ------------------------------ *)

\* the calls of one action that can arrive: a caller, and an input per field
RequestsOf(op, E) ==
    IF op = "createScript" THEN
        {[op |-> op, user |-> user, in |-> [title |-> title, status |-> status]] :
            user \in E.callers, title \in E.title, status \in E.status}
    ELSE IF op = "updateScript" THEN
        {[op |-> op, user |-> user, in |-> [id |-> id, title |-> title, status |-> status]] :
            user \in E.callers, id \in E.scriptIds, title \in E.titlePatch, status \in E.statusPatch}
    ELSE IF op = "listScripts" THEN
        {[op |-> op, user |-> user, in |-> None] :
            user \in E.callers}
    ELSE IF op = "createScriptVersion" THEN
        {[op |-> op, user |-> user, in |-> [scriptId |-> scriptId, isPreferred |-> isPreferred, rawContent |-> rawContent]] :
            user \in E.callers, scriptId \in E.scriptIds, rawContent \in E.rawContent, isPreferred \in E.isPreferred}
    ELSE IF op = "updateScriptVersion" THEN
        {[op |-> op, user |-> user, in |-> [id |-> id, scriptId |-> scriptId, isPreferred |-> isPreferred, rawContent |-> rawContent]] :
            user \in E.callers, id \in E.versionIds, scriptId \in E.scriptIds, isPreferred \in E.isPreferredPatch, rawContent \in E.rawContentPatch}
    ELSE IF op = "deleteScriptVersion" THEN
        {[op |-> op, user |-> user, in |-> [id |-> id, scriptId |-> scriptId]] :
            user \in E.callers, id \in E.versionIds, scriptId \in E.scriptIds}
    ELSE IF op = "listScriptVersions" THEN
        {[op |-> op, user |-> user, in |-> [scriptId |-> scriptId, preferredOnly |-> preferredOnly]] :
            user \in E.callers, scriptId \in E.scriptIds, preferredOnly \in E.preferredOnly}
    ELSE IF op = "createScriptElement" THEN
        {[op |-> op, user |-> user, in |-> [scriptId |-> scriptId, scriptVersionId |-> scriptVersionId, elementType |-> elementType, content |-> content]] :
            user \in E.callers, scriptId \in E.scriptIds, scriptVersionId \in E.versionIds, elementType \in E.elementType, content \in E.content}
    ELSE IF op = "updateScriptElement" THEN
        {[op |-> op, user |-> user, in |-> [id |-> id, scriptId |-> scriptId, scriptVersionId |-> scriptVersionId, elementType |-> elementType, content |-> content]] :
            user \in E.callers, id \in E.elementIds, scriptId \in E.scriptIds, scriptVersionId \in E.versionIds, elementType \in E.elementTypePatch, content \in E.contentPatch}
    ELSE IF op = "deleteScriptElement" THEN
        {[op |-> op, user |-> user, in |-> [id |-> id, scriptId |-> scriptId, scriptVersionId |-> scriptVersionId]] :
            user \in E.callers, id \in E.elementIds, scriptId \in E.scriptIds, scriptVersionId \in E.versionIds}
    ELSE IF op = "listScriptElements" THEN
        {[op |-> op, user |-> user, in |-> [scriptId |-> scriptId, scriptVersionId |-> scriptVersionId]] :
            user \in E.callers, scriptId \in E.scriptIds, scriptVersionId \in E.versionIds}
    ELSE {}

\* a request arrives: context.locals.user and the unparsed input
request(p, E) ==
    /\ pc[p] = "idle"
    /\ \E op \in E.ops : \E c \in RequestsOf(op, E) :
        /\ pc' = [pc EXCEPT ![p] = c.op]
        /\ call' = [call EXCEPT ![p] = c]
    /\ UNCHANGED <<tables, uuid, now>>

\* the response leaves; the connection takes the next request
reply(p) ==
    /\ pc[p] = "done"
    /\ pc' = [pc EXCEPT ![p] = "idle"]
    /\ call' = [call EXCEPT ![p] = Idle]
    /\ UNCHANGED <<tables, uuid, now>>

(* ------------------------------- Scripts ------------------------------- *)

createScript(p, E) ==
    /\ pc[p] = "createScript"
    /\ LET c == call[p]
           user == c.user
           in == c.in IN
        IF ~inputSchema(c.op, in) THEN Rejected(p, c)
        ELSE IF ~requireUser(user) THEN Unauthorized(p, c)
        ELSE
            /\ uuid.script < E.maxScripts
            /\ LET script == [id |-> uuid.script + 1, userId |-> user,
                              title |-> in.title, status |-> in.status,
                              createdAt |-> now, updatedAt |-> now] IN
                /\ Scripts' = Scripts \cup {script}
                /\ uuid' = [uuid EXCEPT !.script = @ + 1]
                /\ Respond(p, c, 1, "success", Some(script))
            /\ UNCHANGED <<ScriptVersions, ScriptElements, now>>

\* up to `updatedAt: new Date()`: getOwnedScript has returned the row (owned)
\* and the set clause is built, timestamp included, before the update is sent
updateScript(p) ==
    /\ pc[p] = "updateScript"
    /\ LET c == call[p]
           user == c.user
           in == c.in IN
        IF ~inputSchema(c.op, in) THEN Rejected(p, c)
        ELSE IF ~requireUser(user) THEN Unauthorized(p, c)
        ELSE IF getOwnedScript(in.id, user) = {} THEN NotFound(p, c, 1)
        ELSE
            /\ Goto(p, "updateScript.update",
                    [op |-> c.op, user |-> user, in |-> in,
                     owned |-> CHOOSE s \in getOwnedScript(in.id, user) : TRUE,
                     updatedAt |-> now])
            /\ UNCHANGED <<tables, uuid, now>>

\* a set clause without `updatedAt: new Date()`
updateScriptSetNoStamp(s, in, updatedAt) ==
    [s EXCEPT !.title = patch(in.title, @),
              !.status = patchOpt(in.status, @)]

updateScriptSet(s, in, updatedAt) ==
    [s EXCEPT !.title = patch(in.title, @),
              !.status = patchOpt(in.status, @),
              !.updatedAt = updatedAt]

\* db.update(Scripts).set(...).where(eq(Scripts.id, input.id)).returning()
updateScriptUpdate(p) ==
    /\ pc[p] = "updateScript.update"
    /\ LET in == call[p].in
           hit == {s \in Scripts : s.id = in.id}
           new == {updateScriptSet(s, in, call[p].updatedAt) : s \in hit} IN
        /\ Scripts' = (Scripts \ hit) \cup new
        /\ Respond(p, call[p], 2, "success", first(new))
    /\ UNCHANGED <<ScriptVersions, ScriptElements, uuid, now>>

listScripts(p) ==
    /\ pc[p] = "listScripts"
    /\ LET c == call[p]
           user == c.user
           in == c.in IN
        IF ~inputSchema(c.op, in) THEN Rejected(p, c)
        ELSE IF ~requireUser(user) THEN Unauthorized(p, c)
        ELSE
            /\ LET scripts == {s \in Scripts : s.userId = user} IN
                Respond(p, c, 1, "success", list(scripts))
            /\ UNCHANGED <<tables, uuid, now>>

(* ---------------------------- ScriptVersions --------------------------- *)

createScriptVersion(p) ==
    /\ pc[p] = "createScriptVersion"
    /\ LET c == call[p]
           user == c.user
           in == c.in IN
        IF ~inputSchema(c.op, in) THEN Rejected(p, c)
        ELSE IF ~requireUser(user) THEN Unauthorized(p, c)
        ELSE IF getOwnedScript(in.scriptId, user) = {} THEN NotFound(p, c, 1)
        ELSE
            /\ Goto(p, "createScriptVersion.insert",
                    [op |-> c.op, user |-> user, in |-> in, createdAt |-> now])
            /\ UNCHANGED <<tables, uuid, now>>

\* db.insert(ScriptVersions).values({...}).returning(); the values, with
\* `createdAt: new Date()`, were built when getOwnedScript returned
createScriptVersionInsert(p, E) ==
    /\ pc[p] = "createScriptVersion.insert"
    /\ LET in == call[p].in
           version == [id |-> uuid.version + 1, scriptId |-> in.scriptId,
                       isPreferred |-> patch(in.isPreferred, FALSE),
                       rawContent |-> in.rawContent,
                       createdAt |-> call[p].createdAt] IN
        IF ~ScriptVersionsScriptIdFk(version.scriptId, Scripts)
        THEN StorageError(p, call[p], 2)
        ELSE
            /\ uuid.version < E.maxVersions
            /\ ScriptVersions' = ScriptVersions \cup {version}
            /\ uuid' = [uuid EXCEPT !.version = @ + 1]
            /\ Respond(p, call[p], 2, "success", Some(version))
            /\ UNCHANGED <<Scripts, ScriptElements, now>>

updateScriptVersion(p) ==
    /\ pc[p] = "updateScriptVersion"
    /\ LET c == call[p]
           user == c.user
           in == c.in IN
        IF ~inputSchema(c.op, in) THEN Rejected(p, c)
        ELSE IF ~requireUser(user) THEN Unauthorized(p, c)
        ELSE IF getOwnedVersion(in.id, in.scriptId, user) = {}
        THEN NotFound(p, c, ownedVersionStmts(in.scriptId, user))
        ELSE
            /\ Goto(p, "updateScriptVersion.update", c)
            /\ UNCHANGED <<tables, uuid, now>>

updateScriptVersionSet(v, in) ==
    [v EXCEPT !.isPreferred = patch(in.isPreferred, @),
              !.rawContent = patch(in.rawContent, @)]

\* db.update(ScriptVersions).set(...).where(eq(ScriptVersions.id, input.id)).returning()
updateScriptVersionUpdate(p) ==
    /\ pc[p] = "updateScriptVersion.update"
    /\ LET in == call[p].in
           hit == {v \in ScriptVersions : v.id = in.id}
           new == {updateScriptVersionSet(v, in) : v \in hit} IN
        /\ ScriptVersions' = (ScriptVersions \ hit) \cup new
        /\ Respond(p, call[p], 3, "success", first(new))
    /\ UNCHANGED <<Scripts, ScriptElements, uuid, now>>

deleteScriptVersion(p) ==
    /\ pc[p] = "deleteScriptVersion"
    /\ LET c == call[p]
           user == c.user
           in == c.in IN
        IF ~inputSchema(c.op, in) THEN Rejected(p, c)
        ELSE IF ~requireUser(user) THEN Unauthorized(p, c)
        ELSE IF getOwnedVersion(in.id, in.scriptId, user) = {}
        THEN NotFound(p, c, ownedVersionStmts(in.scriptId, user))
        ELSE
            /\ Goto(p, "deleteScriptVersion.delete", c)
            /\ UNCHANGED <<tables, uuid, now>>

\* db.delete(ScriptVersions).where(eq(ScriptVersions.id, input.id)); rowsAffected
deleteScriptVersionDelete(p) ==
    /\ pc[p] = "deleteScriptVersion.delete"
    /\ LET in == call[p].in
           hit == {v \in ScriptVersions : v.id = in.id} IN
        IF hit # {} /\ ~ScriptVersionsDeleteFk(in.id, ScriptElements)
        THEN StorageError(p, call[p], 3)
        ELSE IF Cardinality(hit) = 0 THEN NotFound(p, call[p], 3)
        ELSE
            /\ ScriptVersions' = ScriptVersions \ hit
            /\ Respond(p, call[p], 3, "success", None)
            /\ UNCHANGED <<Scripts, ScriptElements, uuid, now>>

listScriptVersions(p) ==
    /\ pc[p] = "listScriptVersions"
    /\ LET c == call[p]
           user == c.user
           in == c.in IN
        IF ~inputSchema(c.op, in) THEN Rejected(p, c)
        ELSE IF ~requireUser(user) THEN Unauthorized(p, c)
        ELSE IF getOwnedScript(in.scriptId, user) = {} THEN NotFound(p, c, 1)
        ELSE
            /\ Goto(p, "listScriptVersions.select", c)
            /\ UNCHANGED <<tables, uuid, now>>

listScriptVersionsSelect(p) ==
    /\ pc[p] = "listScriptVersions.select"
    /\ LET in == call[p].in
           versions == {v \in ScriptVersions :
                           /\ v.scriptId = in.scriptId
                           /\ in.preferredOnly => v.isPreferred = TRUE} IN
        Respond(p, call[p], 2, "success", list(versions))
    /\ UNCHANGED <<tables, uuid, now>>

(* ---------------------------- ScriptElements --------------------------- *)

createScriptElement(p) ==
    /\ pc[p] = "createScriptElement"
    /\ LET c == call[p]
           user == c.user
           in == c.in IN
        IF ~inputSchema(c.op, in) THEN Rejected(p, c)
        ELSE IF ~requireUser(user) THEN Unauthorized(p, c)
        ELSE IF getOwnedVersion(in.scriptVersionId, in.scriptId, user) = {}
        THEN NotFound(p, c, ownedVersionStmts(in.scriptId, user))
        ELSE
            /\ Goto(p, "createScriptElement.insert",
                    [op |-> c.op, user |-> user, in |-> in, createdAt |-> now])
            /\ UNCHANGED <<tables, uuid, now>>

\* db.insert(ScriptElements).values({...}).returning(); the values, with
\* `createdAt: new Date()`, were built when getOwnedVersion returned
createScriptElementInsert(p, E) ==
    /\ pc[p] = "createScriptElement.insert"
    /\ LET in == call[p].in
           element == [id |-> uuid.element + 1, scriptVersionId |-> in.scriptVersionId,
                       elementType |-> in.elementType, content |-> in.content,
                       createdAt |-> call[p].createdAt] IN
        IF ~ScriptElementsVersionIdFk(element.scriptVersionId, ScriptVersions)
        THEN StorageError(p, call[p], 3)
        ELSE
            /\ uuid.element < E.maxElements
            /\ ScriptElements' = ScriptElements \cup {element}
            /\ uuid' = [uuid EXCEPT !.element = @ + 1]
            /\ Respond(p, call[p], 3, "success", Some(element))
            /\ UNCHANGED <<Scripts, ScriptVersions, now>>

updateScriptElement(p) ==
    /\ pc[p] = "updateScriptElement"
    /\ LET c == call[p]
           user == c.user
           in == c.in IN
        IF ~inputSchema(c.op, in) THEN Rejected(p, c)
        ELSE IF ~requireUser(user) THEN Unauthorized(p, c)
        ELSE IF getOwnedVersion(in.scriptVersionId, in.scriptId, user) = {}
        THEN NotFound(p, c, ownedVersionStmts(in.scriptId, user))
        ELSE
            /\ Goto(p, "updateScriptElement.select", c)
            /\ UNCHANGED <<tables, uuid, now>>

\* db.select().from(ScriptElements).where(eq(ScriptElements.id, input.id))
updateScriptElementSelect(p) ==
    /\ pc[p] = "updateScriptElement.select"
    /\ LET existing == {e \in ScriptElements : e.id = call[p].in.id} IN
        IF existing = {} THEN NotFound(p, call[p], 3)
        ELSE
            /\ Goto(p, "updateScriptElement.update", call[p])
            /\ UNCHANGED <<tables, uuid, now>>

updateScriptElementSet(e, in) ==
    [e EXCEPT !.elementType = patch(in.elementType, @),
              !.content = patch(in.content, @)]

\* db.update(ScriptElements).set(...).where(eq(ScriptElements.id, input.id)).returning()
updateScriptElementUpdate(p) ==
    /\ pc[p] = "updateScriptElement.update"
    /\ LET in == call[p].in
           hit == {e \in ScriptElements : e.id = in.id}
           new == {updateScriptElementSet(e, in) : e \in hit} IN
        /\ ScriptElements' = (ScriptElements \ hit) \cup new
        /\ Respond(p, call[p], 4, "success", first(new))
    /\ UNCHANGED <<Scripts, ScriptVersions, uuid, now>>

deleteScriptElement(p) ==
    /\ pc[p] = "deleteScriptElement"
    /\ LET c == call[p]
           user == c.user
           in == c.in IN
        IF ~inputSchema(c.op, in) THEN Rejected(p, c)
        ELSE IF ~requireUser(user) THEN Unauthorized(p, c)
        ELSE IF getOwnedVersion(in.scriptVersionId, in.scriptId, user) = {}
        THEN NotFound(p, c, ownedVersionStmts(in.scriptId, user))
        ELSE
            /\ Goto(p, "deleteScriptElement.delete", c)
            /\ UNCHANGED <<tables, uuid, now>>

\* db.delete(ScriptElements).where(eq(ScriptElements.id, input.id)); rowsAffected
deleteScriptElementDelete(p) ==
    /\ pc[p] = "deleteScriptElement.delete"
    /\ LET hit == {e \in ScriptElements : e.id = call[p].in.id} IN
        IF Cardinality(hit) = 0 THEN NotFound(p, call[p], 3)
        ELSE
            /\ ScriptElements' = ScriptElements \ hit
            /\ Respond(p, call[p], 3, "success", None)
            /\ UNCHANGED <<Scripts, ScriptVersions, uuid, now>>

listScriptElements(p) ==
    /\ pc[p] = "listScriptElements"
    /\ LET c == call[p]
           user == c.user
           in == c.in IN
        IF ~inputSchema(c.op, in) THEN Rejected(p, c)
        ELSE IF ~requireUser(user) THEN Unauthorized(p, c)
        ELSE IF getOwnedVersion(in.scriptVersionId, in.scriptId, user) = {}
        THEN NotFound(p, c, ownedVersionStmts(in.scriptId, user))
        ELSE
            /\ Goto(p, "listScriptElements.select", c)
            /\ UNCHANGED <<tables, uuid, now>>

listScriptElementsSelect(p) ==
    /\ pc[p] = "listScriptElements.select"
    /\ LET elements == {e \in ScriptElements :
                           e.scriptVersionId = call[p].in.scriptVersionId} IN
        Respond(p, call[p], 3, "success", list(elements))
    /\ UNCHANGED <<tables, uuid, now>>

(* --------------------------------- clock -------------------------------- *)

Tick(E) ==
    /\ now < E.maxClock
    /\ now' = now + 1
    /\ UNCHANGED <<tables, uuid, pc, call>>

(* ------------------------------------------------------------------------ *)

Init ==
    /\ Scripts = {} /\ ScriptVersions = {} /\ ScriptElements = {}
    /\ uuid = [script |-> 0, version |-> 0, element |-> 0]
    /\ now = 0
    /\ pc = [p \in Procs |-> "idle"]
    /\ call = [p \in Procs |-> Idle]

(* ------------------------------- bounds -------------------------------- *)

\* rows ever inserted per table
MaxScripts == 2
MaxVersions == 2
MaxElements == 1
\* last reading of the clock
MaxClock == 1

\* What arrives, per specification: the callers, the ids they state and the
\* values they send.  Thin is one signed-in user who names the first row of
\* each table and sends one valid value per field.
Thin ==
    [ops |-> {}, callers |-> {"u1"},
     maxScripts |-> MaxScripts, maxVersions |-> MaxVersions,
     maxElements |-> MaxElements, maxClock |-> MaxClock,
     scriptIds |-> {1}, versionIds |-> {1}, elementIds |-> {1},
     title |-> {"a"}, status |-> {None},
     titlePatch |-> {Some("b")}, statusPatch |-> {None},
     rawContent |-> {"a"}, isPreferred |-> {None},
     rawContentPatch |-> {Some("b")}, isPreferredPatch |-> {None},
     preferredOnly |-> {FALSE},
     elementType |-> {"a"}, content |-> {"a"},
     elementTypePatch |-> {None}, contentPatch |-> {Some("b")}]

(* ---------------- Spec: every action, one call at a time ---------------- *)

Actions ==
    {"createScript", "updateScript", "listScripts",
     "createScriptVersion", "updateScriptVersion", "deleteScriptVersion",
     "listScriptVersions",
     "createScriptElement", "updateScriptElement", "deleteScriptElement",
     "listScriptElements"}

\* signed in or not, valid input or not
AllEnv ==
    [Thin EXCEPT
        !.ops = Actions, !.callers = Callers,
        !.scriptIds = {EmptyId, 1}, !.versionIds = {EmptyId, 1},
        !.elementIds = {EmptyId, 1},
        !.title = {"", "a"}, !.titlePatch = Opt({"", "b"}),
        !.rawContent = {"", "a"}, !.rawContentPatch = Opt({"a"}),
        !.preferredOnly = BOOLEAN,
        !.content = {"", "a"}, !.contentPatch = Opt({"a"})]

Step(p, E) ==
    \/ request(p, E)
    \/ reply(p)
    \/ createScript(p, E)
    \/ updateScript(p)
    \/ updateScriptUpdate(p)
    \/ listScripts(p)
    \/ createScriptVersion(p)
    \/ createScriptVersionInsert(p, E)
    \/ updateScriptVersion(p)
    \/ updateScriptVersionUpdate(p)
    \/ deleteScriptVersion(p)
    \/ deleteScriptVersionDelete(p)
    \/ listScriptVersions(p)
    \/ listScriptVersionsSelect(p)
    \/ createScriptElement(p)
    \/ createScriptElementInsert(p, E)
    \/ updateScriptElement(p)
    \/ updateScriptElementSelect(p)
    \/ updateScriptElementUpdate(p)
    \/ deleteScriptElement(p)
    \/ deleteScriptElementDelete(p)
    \/ listScriptElements(p)
    \/ listScriptElementsSelect(p)

Next == Step("p1", AllEnv)

Spec == Init /\ [][Next]_vars

\* the statements of the handlers: a call at one of these has read storage
Statements ==
    {"updateScript.update", "createScriptVersion.insert", "updateScriptVersion.update",
     "deleteScriptVersion.delete", "listScriptVersions.select",
     "createScriptElement.insert", "updateScriptElement.select",
     "updateScriptElement.update", "deleteScriptElement.delete",
     "listScriptElements.select"}

Done(p) == pc[p] = "done"

\* C2 as stated: whatever the input, a call with no authenticated user is
\* answered UNAUTHORIZED, and has run no storage statement.
C2_UnauthorizedBeforeValidation ==
    \A p \in Procs :
        /\ pc[p] # "idle" /\ call[p].user = NoUser => pc[p] \notin Statements
        /\ Done(p) /\ call[p].user = NoUser =>
                call[p].code = "UNAUTHORIZED" /\ call[p].stmts = 0

\* C2 amended: the input schema is parsed before the handler runs.  A call
\* with no authenticated user is answered UNAUTHORIZED when its input passes
\* the schema of its action and BAD_REQUEST when it does not; either way it
\* is never answered NOT_FOUND or success and runs no storage statement.
C2_UnauthorizedAfterSchema ==
    \A p \in Procs :
        /\ pc[p] # "idle" /\ call[p].user = NoUser => pc[p] \notin Statements
        /\ Done(p) /\ call[p].user = NoUser =>
                /\ call[p].stmts = 0
                /\ call[p].code =
                        IF inputSchema(call[p].op, call[p].in)
                        THEN "UNAUTHORIZED" ELSE "BAD_REQUEST"

\* an unauthenticated updateScript naming an existing Script, valid input
C2_Witness ==
    \E p \in Procs :
        /\ Done(p) /\ call[p].user = NoUser /\ call[p].op = "updateScript"
        /\ inputSchema(call[p].op, call[p].in)
        /\ \E s \in Scripts : s.id = call[p].in.id
        /\ call[p].code = "UNAUTHORIZED"

(* ------------- SpecTenants: two users, one call at a time -------------- *)

TenantEnv ==
    [Thin EXCEPT
        !.ops = {"createScript", "createScriptVersion",
                 "createScriptElement", "updateScriptElement", "deleteScriptElement"},
        !.callers = Users,
        !.scriptIds = 1..MaxScripts, !.versionIds = 1..MaxVersions,
        !.elementIds = 1..MaxElements,
        !.contentPatch = {Some("")}]

NextTenants ==
    \/ request("p1", TenantEnv)
    \/ reply("p1")
    \/ createScript("p1", TenantEnv)
    \/ createScriptVersion("p1")
    \/ createScriptVersionInsert("p1", TenantEnv)
    \/ createScriptElement("p1")
    \/ createScriptElementInsert("p1", TenantEnv)
    \/ updateScriptElement("p1")
    \/ updateScriptElementSelect("p1")
    \/ updateScriptElementUpdate("p1")
    \/ deleteScriptElement("p1")
    \/ deleteScriptElementDelete("p1")

SpecTenants == Init /\ [][NextTenants]_vars

\* the call of p is past the schema and requireUser
Admitted(p) ==
    /\ pc[p] # "idle"
    /\ call[p].user # NoUser
    /\ inputSchema(call[p].op, call[p].in)

\* element.scriptVersionId -> version.scriptId -> script.userId
ChainOwners(e) ==
    {s.userId : s \in {s \in Scripts :
        \E v \in ScriptVersions : v.id = e.scriptVersionId /\ v.scriptId = s.id}}

\* the call of p states the version e is stored under, in a Script of the caller
\* that this version belongs to
StatesChainOf(p, e) ==
    /\ call[p].in.scriptVersionId = e.scriptVersionId
    /\ \E v \in ScriptVersions :
            /\ v.id = e.scriptVersionId /\ v.scriptId = call[p].in.scriptId
    /\ ChainOwners(e) = {call[p].user}

\* C1: an updateScriptElement or deleteScriptElement call that names an
\* element stored under another version than it states, or under a Script of
\* another user, ends with NOT_FOUND and leaves the element as it is; an
\* element row changes or goes only by a call that states its chain.
C1_ElementTenantIsolation ==
    [][\A p \in Procs : \A e \in ScriptElements :
        /\ pc[p] \in {"updateScriptElement.update", "deleteScriptElement.delete"}
        /\ pc'[p] = "done"
        /\ call[p].in.id = e.id
        /\ ~StatesChainOf(p, e)
        => call'[p].code = "NOT_FOUND" /\ e \in ScriptElements']_vars

\* the stated version exists, under another Script than the stated one
VersionOfOtherScript(in) ==
    \E v \in ScriptVersions : v.id = in.scriptVersionId /\ v.scriptId # in.scriptId

\* C5: createScriptElement stating a version that exists under another Script
\* than the stated one is answered NOT_FOUND and inserts nothing, whoever owns
\* the two Scripts; no such call gets as far as the insert.
C5_CrossScriptVersionNotFound ==
    [][\A p \in Procs :
        /\ pc[p] = "createScriptElement" /\ pc'[p] # pc[p]
        /\ Admitted(p)
        /\ VersionOfOtherScript(call[p].in)
        => /\ pc'[p] = "done"
           /\ call'[p].code = "NOT_FOUND"
           /\ ScriptElements' = ScriptElements]_vars

\* the caller owns the stated Script and the Script the version is under
C5_Witness ==
    \E p \in Procs :
        /\ Done(p) /\ call[p].op = "createScriptElement"
        /\ call[p].code = "NOT_FOUND"
        /\ VersionOfOtherScript(call[p].in)
        /\ \E s1, s2 \in Scripts :
            /\ s1.id = call[p].in.scriptId /\ s1.userId = call[p].user
            /\ s2.id # s1.id /\ s2.userId = call[p].user
            /\ \E v \in ScriptVersions :
                v.id = call[p].in.scriptVersionId /\ v.scriptId = s2.id

\* C4: a Script is inserted with the userId of the caller of createScript and
\* keeps it; after every step getOwnedScript finds each stored Script for its
\* owner and nothing for any other user, and an admitted updateScript is
\* answered NOT_FOUND exactly when getOwnedScript finds nothing, be it another
\* user's Script or no Script at all.
C4_OwnershipResolution ==
    [][/\ \A s \in Scripts' : \A u \in Users :
            getOwnedScript(s.id, u)' = IF u = s.userId THEN {s} ELSE {}
       /\ \A s \in Scripts : \E s2 \in Scripts' : s2.id = s.id /\ s2.userId = s.userId
       /\ \A s \in Scripts' :
            (\A o \in Scripts : o.id # s.id) =>
                \E p \in Procs : pc[p] = "createScript" /\ call[p].user = s.userId
       /\ \A p \in Procs :
            pc[p] = "updateScript" /\ pc'[p] # pc[p] /\ Admitted(p) =>
                LET owned == \E s \in Scripts :
                        s.id = call[p].in.id /\ s.userId = call[p].user IN
                IF owned THEN pc'[p] = "updateScript.update"
                ELSE pc'[p] = "done" /\ call'[p].code = "NOT_FOUND"]_vars

\* another user's Script: updateScript by a user who does not own it
C4_Witness ==
    \E p \in Procs :
        /\ Done(p) /\ call[p].op = "updateScript" /\ call[p].code = "NOT_FOUND"
        /\ \E s \in Scripts : s.id = call[p].in.id /\ s.userId # call[p].user
        /\ \E s \in Scripts : s.userId = call[p].user

\* C9: every stored ScriptElement has a non-empty content and elementType
C9_ElementsNonEmpty ==
    \A e \in ScriptElements : e.content # "" /\ e.elementType # ""

(* --------- SpecRace: two connections, the statements interleave --------- *)

RaceEnv ==
    [Thin EXCEPT
        !.ops = {"createScript", "createScriptVersion", "createScriptElement",
                 "updateScriptVersion", "deleteScriptVersion",
                 "updateScriptElement", "deleteScriptElement"}]

StepRace(p) ==
    \/ request(p, RaceEnv)
    \/ reply(p)
    \/ createScript(p, RaceEnv)
    \/ createScriptVersion(p)
    \/ createScriptVersionInsert(p, RaceEnv)
    \/ updateScriptVersion(p)
    \/ updateScriptVersionUpdate(p)
    \/ deleteScriptVersion(p)
    \/ deleteScriptVersionDelete(p)
    \/ createScriptElement(p)
    \/ createScriptElementInsert(p, RaceEnv)
    \/ updateScriptElement(p)
    \/ updateScriptElementSelect(p)
    \/ updateScriptElementUpdate(p)
    \/ deleteScriptElement(p)
    \/ deleteScriptElementDelete(p)

NextRace == \E p \in Procs : StepRace(p)

SpecRace == Init /\ [][NextRace]_vars

\* C3: every stored ScriptElement is under a stored ScriptVersion and every
\* stored ScriptVersion is under a stored Script, whatever the interleaving.
C3_ReferentialIntegrity ==
    /\ \A e \in ScriptElements : \E v \in ScriptVersions : v.id = e.scriptVersionId
    /\ \A v \in ScriptVersions : \E s \in Scripts : s.id = v.scriptId

\* deleteScriptVersion has run its delete on a version that has elements
C3_Witness ==
    \E p \in Procs :
        /\ Done(p) /\ call[p].op = "deleteScriptVersion" /\ call[p].stmts = 3
        /\ \E e \in ScriptElements : e.scriptVersionId = call[p].in.id

\* the table a delete statement works on
DeletesFrom(label) ==
    IF label = "deleteScriptVersion.delete" THEN ScriptVersions ELSE ScriptElements

\* the delete statement of p's call runs in this step
DeleteRuns(p) ==
    /\ pc[p] \in {"deleteScriptVersion.delete", "deleteScriptElement.delete"}
    /\ pc'[p] = "done"

\* another call with the same input is at its delete statement as well
Raced(p) ==
    \E q \in Procs : q # p /\ pc[q] = pc[p] /\ call[q].in = call[p].in

\* C8: a delete is answered success only when its own statement removed the
\* row and NOT_FOUND when there is no row with the id; of two delete calls for
\* one stored id that are both past the ownership resolution, the first to
\* run its statement is answered success and removes the row (and the other
\* is then answered NOT_FOUND).
C8_ExactlyOneDeleteSucceeds ==
    [][\A p \in Procs :
        DeleteRuns(p) =>
            LET stored == \E r \in DeletesFrom(pc[p]) : r.id = call[p].in.id
                gone == \A r \in DeletesFrom(pc[p])' : r.id # call[p].in.id IN
            /\ call'[p].code = "success" => stored /\ gone
            /\ ~stored => call'[p].code = "NOT_FOUND" /\ UNCHANGED tables
            /\ stored /\ Raced(p) => call'[p].code = "success"]_vars

\* C10: a success of updateScriptVersion or updateScriptElement carries the
\* updated record.
C10_UpdateReturnsRecord ==
    \A p \in Procs :
        /\ Done(p) /\ call[p].op \in {"updateScriptVersion", "updateScriptElement"}
        /\ call[p].code = "success"
        => call[p].data # None

(* ------- SpecClock: two connections update Scripts, the clock runs ------ *)

ClockEnv == [Thin EXCEPT !.ops = {"createScript", "updateScript"}]

StepClock(p) ==
    \/ request(p, ClockEnv)
    \/ reply(p)
    \/ createScript(p, ClockEnv)
    \/ updateScript(p)
    \/ updateScriptUpdate(p)

NextClock ==
    \/ \E p \in Procs : StepClock(p)
    \/ Tick(ClockEnv)

SpecClock == Init /\ [][NextClock]_vars

\* the update statement of p's updateScript runs in this step
UpdateCommits(p) == pc[p] = "updateScript.update" /\ pc'[p] = "done"

\* C7 as stated: no step takes the updatedAt of a Script back, also when two
\* updateScript calls interleave, and only a successful updateScript changes it.
C7_UpdatedAtNeverDecreases ==
    [][\A s \in Scripts : \A s2 \in Scripts' :
        s2.id = s.id =>
            /\ s2.updatedAt >= s.updatedAt
            /\ s2.updatedAt # s.updatedAt =>
                \E p \in Procs : UpdateCommits(p) /\ call'[p].code = "success"]_vars

\* C7 amended: a successful updateScript stores the timestamp the call took
\* after its ownership check, which is not before the updatedAt that check
\* read; the updatedAt of a Script changes only so, and it goes back only
\* when another updateScript of the same Script committed between the check
\* and the write of the call.
C7_UpdatedAtIsCallTimestamp ==
    [][/\ \A p \in Procs :
            UpdateCommits(p) =>
                /\ call'[p].code = "success"
                /\ call[p].updatedAt >= call[p].owned.updatedAt
                /\ \E s2 \in Scripts' :
                    /\ s2.id = call[p].in.id
                    /\ s2.updatedAt = call[p].updatedAt
                    /\ call'[p].data = Some(s2)
       /\ \A s \in Scripts : \A s2 \in Scripts' :
            s2.id = s.id /\ s2.updatedAt # s.updatedAt =>
                \E p \in Procs :
                    /\ UpdateCommits(p) /\ call[p].in.id = s.id
                    /\ s2.updatedAt = call[p].updatedAt
                    /\ s2.updatedAt < s.updatedAt =>
                            call[p].owned.updatedAt # s.updatedAt]_vars

\* two successful updateScript calls of one Script overlapped: the row holds
\* what the call with the earlier timestamp wrote
C7_Witness ==
    \E p, q \in Procs :
        /\ Done(p) /\ call[p].op = "updateScript" /\ call[p].code = "success"
        /\ Done(q) /\ call[q].op = "updateScript" /\ call[q].code = "success"
        /\ \E s \in Scripts :
            /\ call[p].data = Some(s)
            /\ call[q].data # None /\ call[q].data[1].id = s.id
            /\ call[q].data[1].updatedAt > s.updatedAt

(* ------ SpecPatch: one user creates and patches rows of every table ----- *)

PatchEnv ==
    [Thin EXCEPT
        !.ops = {"createScript", "createScriptVersion", "createScriptElement",
                 "updateScript", "updateScriptVersion", "updateScriptElement"},
        !.titlePatch = Opt({"b"}), !.statusPatch = Opt({"s"}),
        !.rawContentPatch = Opt({"b"}), !.isPreferredPatch = Opt({TRUE}),
        !.elementTypePatch = Opt({"b"}), !.contentPatch = Opt({"b"})]

NextPatch ==
    \/ request("p1", PatchEnv)
    \/ reply("p1")
    \/ createScript("p1", PatchEnv)
    \/ createScriptVersion("p1")
    \/ createScriptVersionInsert("p1", PatchEnv)
    \/ createScriptElement("p1")
    \/ createScriptElementInsert("p1", PatchEnv)
    \/ updateScript("p1")
    \/ updateScriptUpdate("p1")
    \/ updateScriptVersion("p1")
    \/ updateScriptVersionUpdate("p1")
    \/ updateScriptElement("p1")
    \/ updateScriptElementSelect("p1")
    \/ updateScriptElementUpdate("p1")
    \/ Tick(PatchEnv)

SpecPatch == Init /\ [][NextPatch]_vars

\* the update statement at `label` of p's call runs in this step and the call
\* is answered success
Updates(p, label) ==
    pc[p] = label /\ pc'[p] = "done" /\ call'[p].code = "success"

\* the rows of `rows` with another id are in `rows2`, and no row is added
OthersKept(rows, rows2, id) ==
    /\ \A r \in rows : r.id # id => r \in rows2
    /\ Cardinality(rows2) = Cardinality(rows)

\* a required column after the update: the supplied value, or the old one
Patched(field, old, new) ==
    /\ field # None => new = field[1]
    /\ field = None => new = old

\* C6: a successful updateScript, updateScriptVersion or updateScriptElement
\* sets, on the row with the given id, each supplied field to the supplied
\* value (and updatedAt of a Script to the timestamp of the call) and leaves
\* the omitted fields, the id, owner, parent reference and createdAt of that
\* row and every other row of the three tables as they were.
C6_PartialPatchFrame ==
    [][\A p \in Procs :
        /\ Updates(p, "updateScript.update") =>
            /\ UNCHANGED <<ScriptVersions, ScriptElements>>
            /\ OthersKept(Scripts, Scripts', call[p].in.id)
            /\ \A s \in Scripts : s.id = call[p].in.id =>
                \E s2 \in Scripts' :
                    /\ s2.id = s.id /\ s2.userId = s.userId
                    /\ s2.createdAt = s.createdAt
                    /\ Patched(call[p].in.title, s.title, s2.title)
                    /\ call[p].in.status # None => s2.status = call[p].in.status
                    /\ call[p].in.status = None => s2.status = s.status
                    /\ s2.updatedAt = call[p].updatedAt
        /\ Updates(p, "updateScriptVersion.update") =>
            /\ UNCHANGED <<Scripts, ScriptElements>>
            /\ OthersKept(ScriptVersions, ScriptVersions', call[p].in.id)
            /\ \A v \in ScriptVersions : v.id = call[p].in.id =>
                \E v2 \in ScriptVersions' :
                    /\ v2.id = v.id /\ v2.scriptId = v.scriptId
                    /\ v2.createdAt = v.createdAt
                    /\ Patched(call[p].in.isPreferred, v.isPreferred, v2.isPreferred)
                    /\ Patched(call[p].in.rawContent, v.rawContent, v2.rawContent)
        /\ Updates(p, "updateScriptElement.update") =>
            /\ UNCHANGED <<Scripts, ScriptVersions>>
            /\ OthersKept(ScriptElements, ScriptElements', call[p].in.id)
            /\ \A e \in ScriptElements : e.id = call[p].in.id =>
                \E e2 \in ScriptElements' :
                    /\ e2.id = e.id /\ e2.scriptVersionId = e.scriptVersionId
                    /\ e2.createdAt = e.createdAt
                    /\ Patched(call[p].in.elementType, e.elementType, e2.elementType)
                    /\ Patched(call[p].in.content, e.content, e2.content)]_vars

\* updateScript with status alone, on a Script with a title, among other rows
C6_Witness ==
    \E p \in Procs :
        /\ Done(p) /\ call[p].op = "updateScript" /\ call[p].code = "success"
        /\ call[p].in.title = None /\ call[p].in.status = Some("s")
        /\ \E s \in Scripts :
            /\ call[p].data = Some(s)
            /\ s.title = "a" /\ s.status = Some("s") /\ s.updatedAt > s.createdAt
        /\ \E s \in Scripts : s.id # call[p].in.id
        /\ ScriptVersions # {} /\ ScriptElements # {}

====
